---- MODULE Spec2Model ----
(***************************************************************************)
(* A model of the RingBuffer of Sources/C/RingBuffer.c and                 *)
(* Sources/C/include/RingBuffer.h: one heap-allocated struct with a byte   *)
(* region `buffer` of `capacity` bytes and the two cursors `start`, `end`. *)
(*                                                                         *)
(* size_t is modelled as an unsigned word of SizeBits bits.  The header    *)
(* computes RingBuffer_available_data with an unsigned division by `start` *)
(* (and remainders by `capacity`); a zero divisor is undefined behaviour   *)
(* in C.  The package builds for x86_64, where the div instruction raises  *)
(* a divide error and the process is killed, and for arm64, where udiv     *)
(* yields 0 (and the remainder, compiled as udiv + msub, yields the        *)
(* dividend).  The target is chosen in Init and kept.                      *)
(***************************************************************************)
EXTENDS Integers, Sequences, FiniteSets, TLC

\* ---------------------------------------------------------------- bounds
MaxCap == 3        \* capacities 0..MaxCap are created
MaxLen == 2        \* lengths / amounts 0..MaxLen are passed to the calls
NumBytes == 2      \* payload bytes are 1..NumBytes; 0 is calloc's zero byte
MaxUnread == 3     \* bound of the written-and-not-yet-read history
SizeBits == 6      \* width of size_t in the model

SIZE_MAX == 2 ^ SizeBits - 1
Word == 2 ^ SizeBits
Byte == 1 .. NumBytes
Targets == {"x86_64", "arm64"}

VARIABLES
    target_arch,   \* the build target: decides what a zero divisor does
    capacity,      \* buffer->capacity
    start,         \* buffer->start
    end,           \* buffer->end
    buffer,        \* buffer->buffer, a function 0..capacity-1 -> byte
    status,        \* "ok" | "trapped" (divide error) | "oob" (memcpy left the region)
                   \* | "destroyed" (freed, the caller's pointer dangles)
                   \* | "aborted" | "corrupt" (after a second free, see RingBuffer_destroy)
    frees,         \* how often free() was given the region and the struct
    call,          \* the last call: its name, argument, return value, bytes copied out
    unread         \* history: bytes of successful writes not yet consumed by a
                   \* successful read or a clear, oldest first

vars == <<target_arch, capacity, start, end, buffer, status, frees, call, unread>>

\* ------------------------------------------------------------ arithmetic
\* The result of an arithmetic expression: a value, or the divide error.
Val(n) == [ok |-> TRUE, v |-> n]
Fault == [ok |-> FALSE, v |-> 0]

\* a / b on size_t.
UDiv(a, b) ==
    IF b = 0
    THEN IF target_arch = "x86_64" THEN Fault ELSE Val(0)
    ELSE Val(a \div b)

\* a % b on size_t.
URem(a, b) ==
    IF b = 0
    THEN IF target_arch = "x86_64" THEN Fault ELSE Val(a)
    ELSE Val(a % b)

\* size_t wrap-around of an integer expression.
Wrap(n) == (n + Word) % Word

\* (size_t)-1, the value `return -1` gives from a function returning size_t.
ERR == SIZE_MAX
\* The return slot of a call that did not return (the process was killed).
NoReturn == [ok |-> FALSE, v |-> 0]

\* ------------------------------------------------------- inline queries
\* buffer->end % buffer->capacity / buffer->start
RingBuffer_available_data(s, e, c) ==
    LET r == URem(e, c)
    IN  IF r.ok THEN UDiv(r.v, s) ELSE Fault

\* buffer->capacity - buffer->end - 1
RingBuffer_available_space(e, c) == Wrap(c - e - 1)

\* RingBuffer_available_data(buffer) == 0
RingBuffer_empty(s, e, c) ==
    LET d == RingBuffer_available_data(s, e, c)
    IN  IF d.ok THEN Val(IF d.v = 0 THEN 1 ELSE 0) ELSE Fault

\* RingBuffer_available_space(buffer) == 0
RingBuffer_full(e, c) == IF RingBuffer_available_space(e, c) = 0 THEN 1 ELSE 0

\* buffer->buffer + buffer->start, as an offset into the region
RingBuffer_starts_at(s) == s

\* buffer->buffer + buffer->end, as an offset into the region
RingBuffer_ends_at(e) == e

\* RingBuffer_commit_read: (buffer->start + amount) % buffer->capacity
CommitReadStart(s, amount, c) == URem(Wrap(s + amount), c)

\* Ringbuffer_commit_write without the reduction modulo capacity.
CommitWriteEnd_NoMod(e, amount, c) == Val(Wrap(e + amount))

\* Ringbuffer_commit_write: (buffer->end + amount) % buffer->capacity
CommitWriteEnd(e, amount, c) == URem(Wrap(e + amount), c)

\* ---------------------------------------------------------------- memcpy
\* Whether [off, off + n) lies inside a region of c bytes.
InRegion(off, n, c) == off + n <= c

\* memcpy(region + off, data, Len(data))
CopyIn(buf, off, data) ==
    [i \in DOMAIN buf |->
        IF off <= i /\ i < off + Len(data) THEN data[i - off + 1] ELSE buf[i]]

\* memcpy(target, region + off, n): the bytes delivered
CopyOut(buf, off, n) == [i \in 1 .. n |-> buf[off + i - 1]]

\* ------------------------------------------------------------------ Init
\* RingBuffer_create(capacity): calloc'ed struct and region, cursors at 0.
Init ==
    /\ target_arch \in Targets
    /\ capacity \in 0 .. MaxCap
    /\ start = 0
    /\ end = 0
    /\ buffer = [i \in 0 .. capacity - 1 |-> 0]
    /\ status = "ok"
    /\ frees = [region |-> 0, struct |-> 0]
    /\ call = [name |-> "create", arg |-> capacity, ret |-> Val(0), out |-> <<>>]
    /\ unread = <<>>

Datas == UNION {[1 .. n -> Byte] : n \in 0 .. MaxLen}
Amounts == 0 .. MaxLen

\* The call `name` did not return: the process was killed by the divide
\* error ("trapped") or its memcpy left the region ("oob").
Aborted(how, name, arg) ==
    /\ status' = how
    /\ call' = [name |-> name, arg |-> arg, ret |-> NoReturn, out |-> <<>>]
    /\ UNCHANGED <<target_arch, capacity, start, end, buffer, frees, unread>>

\* The call `name` returned r, having copied `out` into the caller's target.
Returned(name, arg, r, out) ==
    /\ status' = "ok"
    /\ call' = [name |-> name, arg |-> arg, ret |-> Val(r), out |-> out]
    /\ UNCHANGED <<target_arch, capacity, frees>>

\* s without its first n elements.
Drop(s, n) == SubSeq(s, n + 1, Len(s))

\* ----------------------------------------------------------------- write
\* if (RingBuffer_available_data(buffer) == 0): the cursors are reset
WriteResets(d) == d = 0

\* The space test of RingBuffer_write off by one: a write of one byte more
\* than the free space is let through.
WriteRejects_OffByOne(length, e, c) ==
    length > RingBuffer_available_space(e, c) + 1

\* if (length > RingBuffer_available_space(buffer)) return -1;
WriteRejects(length, e, c) == length > RingBuffer_available_space(e, c)

\* size_t RingBuffer_write(RingBuffer *buffer, char *data, size_t length)
RingBuffer_write(data) ==
    /\ status = "ok"
    /\ Len(unread) + Len(data) <= MaxUnread
    /\ LET length == Len(data)
           d == RingBuffer_available_data(start, end, capacity)
       IN  IF ~d.ok THEN Aborted("trapped", "write", length)
           ELSE
           LET s1 == IF WriteResets(d.v) THEN 0 ELSE start
               e1 == IF WriteResets(d.v) THEN 0 ELSE end
               e2 == CommitWriteEnd(e1, length, capacity)
           IN  IF WriteRejects(length, e1, capacity)
               THEN /\ start' = s1
                    /\ end' = e1
                    /\ UNCHANGED <<buffer, unread>>
                    /\ Returned("write", length, ERR, <<>>)
               ELSE IF ~InRegion(RingBuffer_ends_at(e1), length, capacity)
               THEN Aborted("oob", "write", length)
               ELSE IF ~e2.ok THEN Aborted("trapped", "write", length)
               ELSE /\ buffer' = CopyIn(buffer, RingBuffer_ends_at(e1), data)
                    /\ start' = s1
                    /\ end' = e2.v
                    /\ unread' = unread \o data
                    /\ Returned("write", length, length, <<>>)

\* ------------------------------------------------------------------ read
\* The data test of RingBuffer_read off by one: a read of one byte more than
\* the data available is let through.
ReadRejects_OffByOne(amount, d) == amount > d + 1

\* if (amount > RingBuffer_available_data(buffer)) return -1;
ReadRejects(amount, d) == amount > d

\* if (buffer->end == buffer->start) after the commit: the cursors are reset
ReadResets(s, e) == e = s

\* size_t RingBuffer_read(RingBuffer *buffer, char *target, size_t amount)
RingBuffer_read(amount) ==
    /\ status = "ok"
    /\ LET d == RingBuffer_available_data(start, end, capacity)
           s1 == CommitReadStart(start, amount, capacity)
       IN  IF ~d.ok THEN Aborted("trapped", "read", amount)
           ELSE IF ReadRejects(amount, d.v)
           THEN /\ UNCHANGED <<start, end, buffer, unread>>
                /\ Returned("read", amount, ERR, <<>>)
           ELSE IF ~InRegion(RingBuffer_starts_at(start), amount, capacity)
           THEN Aborted("oob", "read", amount)
           ELSE IF ~s1.ok THEN Aborted("trapped", "read", amount)
           ELSE /\ start' = IF ReadResets(s1.v, end) THEN 0 ELSE s1.v
                /\ end' = IF ReadResets(s1.v, end) THEN 0 ELSE end
                /\ unread' = Drop(unread, amount)
                /\ UNCHANGED buffer
                /\ Returned("read", amount, amount,
                            CopyOut(buffer, RingBuffer_starts_at(start), amount))

\* ----------------------------------------------------------------- clear
\* void RingBuffer_clear(RingBuffer *buffer):
\*   RingBuffer_commit_read(buffer, RingBuffer_available_data(buffer))
RingBuffer_clear ==
    /\ status = "ok"
    /\ LET d == RingBuffer_available_data(start, end, capacity)
           s1 == CommitReadStart(start, d.v, capacity)
       IN  IF ~d.ok \/ ~s1.ok THEN Aborted("trapped", "clear", 0)
           ELSE /\ start' = s1.v
                /\ unread' = <<>>
                /\ UNCHANGED <<end, buffer>>
                /\ Returned("clear", 0, 0, <<>>)

\* -------------------------------------------------- the commit functions
\* void RingBuffer_commit_read(RingBuffer *buffer, size_t amount), called
\* by a consumer that took `amount` bytes through RingBuffer_starts_at.
RingBuffer_commit_read(amount) ==
    /\ status = "ok"
    /\ LET s1 == CommitReadStart(start, amount, capacity)
       IN  IF ~s1.ok THEN Aborted("trapped", "commit_read", amount)
           ELSE /\ start' = s1.v
                /\ unread' = Drop(unread, amount)
                /\ UNCHANGED <<end, buffer>>
                /\ Returned("commit_read", amount, 0, <<>>)

\* void Ringbuffer_commit_write(RingBuffer *buffer, size_t amount), called
\* by a producer that placed `amount` bytes through RingBuffer_ends_at.
Ringbuffer_commit_write(amount) ==
    /\ status = "ok"
    /\ Len(unread) + amount <= MaxUnread
    /\ LET e1 == CommitWriteEnd(end, amount, capacity)
       IN  IF ~e1.ok THEN Aborted("trapped", "commit_write", amount)
           ELSE /\ end' = e1.v
                /\ unread' = IF capacity = 0 THEN unread
                             ELSE unread \o [i \in 1 .. amount |->
                                               buffer[(end + i - 1) % capacity]]
                /\ UNCHANGED <<start, buffer>>
                /\ Returned("commit_write", amount, 0, <<>>)

\* ------------------------------------------------------- specifications
\* Callers that use the buffer through write, read and clear only.
Next ==
    \/ \E data \in Datas : RingBuffer_write(data)
    \/ \E amount \in Amounts : RingBuffer_read(amount)
    \/ RingBuffer_clear

Spec == Init /\ [][Next]_vars

\* Callers that also move the cursors with the two commit functions.
NextCommit ==
    \/ Next
    \/ \E amount \in Amounts : RingBuffer_commit_read(amount)
    \/ \E amount \in Amounts : Ringbuffer_commit_write(amount)

SpecCommit == Init /\ [][NextCommit]_vars

\* --------------------------------------------------------------- destroy
\* The pointers a caller passes to RingBuffer_destroy: NULL, or the pointer
\* RingBuffer_create returned (which dangles once the instance is freed).
NULL == 0
Instance == 1
Pointers == {NULL, Instance}

\* RingBuffer_destroy without its test of the pointer.
DestroyFrees_NoGuard(p) == TRUE

\* if (buffer) { free(buffer->buffer); free(buffer); }
DestroyFrees(p) == p # NULL

\* free(buffer->buffer); free(buffer);
FreeBoth(f) == [region |-> f.region + 1, struct |-> f.struct + 1]

\* void RingBuffer_destroy(RingBuffer *buffer). Given the dangling pointer
\* of an instance already destroyed, it reads buffer->buffer from freed
\* memory and frees both blocks a second time: undefined behaviour, which
\* an allocator either detects (the process is aborted before anything is
\* released again) or carries out (the heap is corrupt from then on).
RingBuffer_destroy(p) ==
    /\ status \in {"ok", "destroyed"}
    /\ call' = [name |-> "destroy", arg |-> p, ret |-> Val(0), out |-> <<>>]
    /\ UNCHANGED <<target_arch, capacity, start, end, buffer, unread>>
    /\ IF ~DestroyFrees(p)
       THEN UNCHANGED <<status, frees>>
       ELSE IF status = "ok"
       THEN /\ frees' = FreeBoth(frees)
            /\ status' = "destroyed"
       ELSE \/ /\ status' = "aborted"
               /\ UNCHANGED frees
            \/ /\ status' = "corrupt"
               /\ frees' = FreeBoth(frees)

\* Callers that use write, read and clear and destroy the buffer.
NextLifecycle ==
    \/ Next
    \/ \E p \in Pointers : RingBuffer_destroy(p)

SpecLifecycle == Init /\ [][NextLifecycle]_vars

\* ------------------------------------------------------ state functions
\* What RingBuffer_available_data(buffer) yields in the current state.
Data == RingBuffer_available_data(start, end, capacity)

\* What RingBuffer_available_space(buffer) yields in the current state.
Space == RingBuffer_available_space(end, capacity)

\* The valid window of the data model: storage[start..end) read modulo capacity.
Window(s, e, buf, c) == [i \in 1 .. ((e - s + c) % c) |-> buf[(s + i - 1) % c]]

\* The step is a call of `name` that returned, made on a live process.
Step(name) == status = "ok" /\ status' = "ok" /\ call'.name = name

\* The call recorded in `call` returned its argument (the success value).
Succeeded(c) == c.ret = Val(c.arg)

\* ---------------------------------------------------------------- claims
\* C1: after every operation of a write/read sequence on a buffer of
\* capacity >= 1, available_data + available_space == capacity - 1
\* (stated of the states where the query returns a value).
AvailableSum_C1 ==
    (status = "ok" /\ capacity >= 1 /\ Data.ok) => Data.v + Space = capacity - 1

\* C2: round trip. A write of L <= availableSpace() bytes that returns,
\* returns L; and when the buffer held no unread data before that write, the
\* read of L bytes that follows it returns L and delivers exactly the bytes
\* written.
RoundTrip_C2 ==
    [][ /\ (Step("write") /\ capacity >= 1 /\ call'.arg <= Space)
            => Succeeded(call')
        /\ (/\ Step("read")
            /\ capacity >= 1
            /\ call.name = "write" /\ Succeeded(call)
            /\ Len(unread) = call.arg
            /\ call'.arg = call.arg)
            => (Succeeded(call') /\ call'.out = unread) ]_vars

DataCount_C4 ==
    (status = "ok" /\ capacity >= 1 /\ Data.ok)
        => /\ Data.v = Len(unread)
           /\ Data.v = (end - start + capacity) % capacity

\* C5: a write of more bytes than availableSpace() returns the error value
\* and mutates nothing: start, end, the storage and availableData() are as
\* before the call.
WriteOverflow_C5 ==
    [][ (Step("write") /\ capacity >= 1 /\ call'.arg > Space)
            => /\ call'.ret = Val(ERR)
               /\ start' = start /\ end' = end /\ buffer' = buffer
               /\ Data' = Data ]_vars

DrainNormalizes_C7 ==
    [][ (/\ Step("read") /\ capacity >= 1
         /\ unread # <<>>
         /\ Data.ok /\ call'.arg = Data.v)
            => /\ Succeeded(call')
               /\ start' = 0 /\ end' = 0
               /\ Space' = capacity - 1 ]_vars

\* C8: after one clear the buffer is empty and normalized (availableData()
\* == 0, start == end == 0), and a clear that follows a clear changes
\* neither start, end nor the storage.
ClearIdempotent_C8 ==
    [][ (Step("clear") /\ capacity >= 1)
            => /\ Data'.ok /\ Data'.v = 0
               /\ start' = 0 /\ end' = 0
               /\ call.name = "clear" => UNCHANGED <<start, end, buffer>> ]_vars

\* C9: usable capacity is capacity - 1. On a fresh buffer of capacity N >= 2
\* availableSpace() == N - 1 and a write of N - 1 bytes returns N - 1; in the
\* state that write leaves, every write of length >= 1 returns the error
\* value.
UsableCapacity_C9 ==
    [][ /\ (call.name = "create" /\ capacity >= 2) => Space = capacity - 1
        /\ (/\ Step("write") /\ capacity >= 2
            /\ call.name = "create" /\ call'.arg = capacity - 1)
            => Succeeded(call')
        /\ (/\ Step("write") /\ capacity >= 2
            /\ call.name = "write" /\ call.arg = capacity - 1 /\ Succeeded(call)
            /\ start = 0 /\ end = capacity - 1 /\ Len(unread) = capacity - 1
            /\ call'.arg >= 1)
            => call'.ret = Val(ERR) ]_vars

\* C10: a successful write returns length, leaves the previously unread
\* bytes intact (the valid window is the old window followed by the data),
\* sets end to (end + length) mod capacity, end taken after the reset of an
\* empty buffer, and increases availableData() by exactly length.
WriteEffect_C10 ==
    [][ (/\ Step("write") /\ capacity >= 1
         /\ call'.ret # Val(ERR))
            => /\ Succeeded(call')
               /\ Window(start', end', buffer', capacity)
                    = Window(start, end, buffer, capacity)
                        \o Drop(unread', Len(unread))
               /\ Data.ok /\ Data'.ok
               /\ end' = ((IF Data.v = 0 THEN 0 ELSE end) + call'.arg) % capacity
               /\ Data'.v = Data.v + call'.arg ]_vars

\* C11: a successful read returns amount, copies the amount oldest unread
\* bytes into the target and decreases availableData() by exactly amount;
\* when amount is smaller than the data available, end is unchanged and
\* start becomes (start + amount) mod capacity.
ReadEffect_C11 ==
    [][ (/\ Step("read") /\ capacity >= 1
         /\ call'.ret # Val(ERR)
         /\ Data.ok /\ Data'.ok)
            => /\ Succeeded(call')
               /\ call'.arg <= Len(unread)
               /\ call'.out = SubSeq(unread, 1, call'.arg)
               /\ Data'.v = Data.v - call'.arg
               /\ call'.arg < Data.v
                    => /\ end' = end
                       /\ start' = (start + call'.arg) % capacity ]_vars

\* C12: RingBuffer_empty is true iff no byte is unread, and RingBuffer_full
\* is true iff the number of unread bytes is capacity - 1 (stated of the
\* states where RingBuffer_empty returns a value).
EmptyFull_C12 ==
    (status = "ok" /\ capacity >= 1 /\ RingBuffer_empty(start, end, capacity).ok)
        => /\ RingBuffer_empty(start, end, capacity).v = 1 <=> Len(unread) = 0
           /\ RingBuffer_full(end, capacity) = 1 <=> Len(unread) = capacity - 1

\* C13: every buffer RingBuffer_create returns has capacity >= 1 (a request
\* for capacity 0 is refused), start == end == 0 and all-zero storage.
CreateRejectsZero_C13 ==
    call.name = "create"
        => /\ capacity >= 1
           /\ start = 0 /\ end = 0
           /\ \A i \in DOMAIN buffer : buffer[i] = 0

NoZeroDivisor_C15 ==
    [][ (/\ status = "ok" /\ capacity >= 1
         /\ call'.name \in {"write", "read", "clear"})
            => /\ start # 0
               /\ status' # "trapped" ]_vars

\* C16: whenever RingBuffer_write performs its copy, the destination lies
\* inside the storage region: no write that passes the space check stores a
\* byte at an offset >= capacity.
WriteInRegion_C16 ==
    [][ (status = "ok" /\ call'.name = "write") => status' # "oob" ]_vars

\* C17: in every state reached from RingBuffer_create(capacity >= 1) by
\* write, read, clear, commit_read and commit_write,
\* 0 <= start < capacity and 0 <= end < capacity.
CursorBounds_C17 ==
    capacity >= 1 => (start \in 0 .. capacity - 1 /\ end \in 0 .. capacity - 1)

\* C17 witness: with start at the last offset, a commit_write of a non-zero
\* amount took end around the end of the region back to 0.
CursorBounds_C17_Witness ==
    /\ status = "ok" /\ capacity >= 2
    /\ call.name = "commit_write" /\ call.arg >= 1
    /\ start = capacity - 1 /\ end = 0

\* The Empty state of the state machine: start == end == 0.
Empty == start = 0 /\ end = 0

\* The Full state of the state machine: capacity - 1 bytes are unread.
Full == Len(unread) = capacity - 1

\* C18: the Empty state is left only by a write of length >= 1, and every
\* read of amount >= 1 in Empty fails and changes nothing; the Full state is
\* left only by a read or a clear, and every write of length >= 1 in Full
\* fails and changes nothing. A call that fails returns the error value.
StateMachine_C18 ==
    [][ (status = "ok" /\ capacity >= 1)
            => /\ (Empty /\ call'.name = "read" /\ call'.arg >= 1)
                    => (call'.ret = Val(ERR) /\ UNCHANGED <<start, end, buffer>>)
               /\ (Empty /\ ~Empty')
                    => (call'.name = "write" /\ call'.arg >= 1)
               /\ (Full /\ call'.name = "write" /\ call'.arg >= 1)
                    => (call'.ret = Val(ERR) /\ UNCHANGED <<start, end, buffer>>)
               /\ (Full /\ ~Full')
                    => call'.name \in {"read", "clear"} ]_vars

\* C19: whenever RingBuffer_read copies bytes, the source range
\* [start, start + amount) lies inside the written, still unread part of the
\* storage: start + amount <= end <= capacity - 1.
ReadInWindow_C19 ==
    [][ (/\ Step("read") /\ capacity >= 1
         /\ Succeeded(call') /\ call'.arg >= 1)
            => (start + call'.arg <= end /\ end <= capacity - 1) ]_vars

\* C20: the valid window never wraps. In every state reached through write,
\* read and clear, start <= end; and an accepted write has advanced end
\* without passing the end of the storage: end holds at least the length
\* written (no reduction modulo capacity took place) and is at most
\* capacity - 1.
NoWrap_C20 ==
    /\ start <= end
    /\ (status = "ok" /\ call.name = "write" /\ Succeeded(call))
        => /\ call.arg <= end
           /\ capacity >= 1 => end <= capacity - 1

\* C20 witness: an accepted write has filled the buffer up to its last
\* usable offset.
NoWrap_C20_Witness ==
    /\ status = "ok" /\ capacity >= 2
    /\ call.name = "write" /\ Succeeded(call) /\ call.arg >= 1
    /\ start = 0 /\ end = capacity - 1

====
